---- MODULE Spec2Model ----
(***************************************************************************)
(* A model of the LC-3 virtual machine of src/main.cc: the image loader    *)
(* (VM::LoadImage), the fetch-decode-execute loop (VM::Run), the           *)
(* memory-mapped keyboard (VM::MemRead), the terminal mode handling and    *)
(* the interrupt handler, with main() as the driver.                       *)
(*                                                                         *)
(* Words are 16 bit wide and kept in 0..65535.  memory_ is zero            *)
(* initialised, so it is kept sparse: mem maps the addresses that hold a   *)
(* nonzero word to that word, every other cell of memory_ holds 0.         *)
(***************************************************************************)
EXTENDS Integers, Sequences, FiniteSets, TLC

VARIABLES
    pc,            \* position of the process in main() / VM::Run
    image,         \* the image file's bytes, as read by main()
    loaded,        \* what VM::LoadImage returned: "none" (not called), "ok", "fail"
    mem,           \* memory_: the nonzero cells
    reg,           \* reg_: R0..R7, PC (8), COND (9)
    running,       \* the local `running` of VM::Run
    tio,           \* the terminal's current mode
    original_tio,  \* the global original_tio
    handler,       \* whether SIGINT is routed to HandleInterrupt
    faddr,         \* the local `addr` of the last fetch
    ir,            \* the local `instr` of the last fetch
    io,            \* what the last executed step did to memory and the terminal
    steps,         \* number of instructions executed so far
    call           \* argument and result of a pure function under test

vars == <<pc, image, loaded, mem, reg, running, tio, original_tio, handler,
          faddr, ir, io, steps, call>>

(***************************************************************************)
(* Bounds of the model.                                                    *)
(***************************************************************************)
MaxSteps == 6
MaxBody == 2
MaxLoopSteps == 34

(***************************************************************************)
(* Program constants.                                                      *)
(***************************************************************************)
kR0 == 0
kR7 == 7
kRPC == 8
kRCond == 9
kRegCnt == 10

kOpBr == 0
kOpAdd == 1
kOpLd == 2
kOpSt == 3
kOpJsr == 4
kOpAnd == 5
kOpLdr == 6
kOpStr == 7
kOpRti == 8
kOpNot == 9
kOpLdi == 10
kOpSti == 11
kOpJmp == 12
kOpRes == 13
kOpLea == 14
kOpTrap == 15

kFlPos == 1
kFlZro == 2
kFlNeg == 4

kTrapGetc == 32
kTrapOut == 33
kTrapPuts == 34
kTrapIn == 35
kTrapPutsp == 36
kTrapHalt == 37

kKeyboardStatus == 65024
kKeyboardData == 65026

kMaxMemory == 65535

PCStart == 12288

(***************************************************************************)
(* 16-bit arithmetic.  C computes in int and the assignment to a u16       *)
(* truncates: u16(x) is that truncation.                                   *)
(***************************************************************************)
u16(x) == x % 65536

RECURSIVE BitAnd(_, _)
BitAnd(a, b) ==
    IF a = 0 \/ b = 0 THEN 0
    ELSE (a % 2) * (b % 2) + 2 * BitAnd(a \div 2, b \div 2)

RECURSIVE BitOr(_, _)
BitOr(a, b) ==
    IF a = 0 THEN b
    ELSE IF b = 0 THEN a
    ELSE (IF a % 2 = 1 \/ b % 2 = 1 THEN 1 ELSE 0) + 2 * BitOr(a \div 2, b \div 2)

Shr(x, n) == x \div (2 ^ n)
Shl(x, n) == x * (2 ^ n)

\* SignExtend testing bit bits_cnt instead of bit bits_cnt - 1.
SignExtendWrongBit(x, bits_cnt) ==
    IF BitAnd(Shr(x, bits_cnt), 1) # 0
    THEN u16(BitOr(Shl(65535, bits_cnt), x))
    ELSE x

SignExtend(x, bits_cnt) ==
    IF BitAnd(Shr(x, bits_cnt - 1), 1) # 0
    THEN u16(BitOr(Shl(65535, bits_cnt), x))
    ELSE x

u16Swap(x) == u16(BitOr(Shr(x, 8), Shl(x, 8)))

R0(instr) == BitAnd(Shr(instr, 9), 7)
R1(instr) == BitAnd(Shr(instr, 6), 7)
R2(instr) == BitAnd(instr, 7)

(***************************************************************************)
(* memory_ as a sparse array.                                              *)
(***************************************************************************)
Cell(m, a) == IF a \in DOMAIN m THEN m[a] ELSE 0

MemSet(m, a, v) ==
    IF v = 0
    THEN [x \in (DOMAIN m) \ {a} |-> m[x]]
    ELSE [x \in (DOMAIN m) \cup {a} |-> IF x = a THEN v ELSE m[x]]

EmptyMem == [x \in {} |-> 0]

(***************************************************************************)
(* The image file.  main() reads the whole file into a buffer of size + 1  *)
(* bytes; bytes[i + 1] is byte i of the file, and a file longer than the   *)
(* bytes listed continues with zero bytes up to size.                      *)
(***************************************************************************)
SeqsUpTo(S, n) == UNION {[1..k -> S] : k \in 0..n}

WordBytes(ws) ==
    [i \in 1..(2 * Len(ws)) |->
        IF i % 2 = 1 THEN ws[(i + 1) \div 2] \div 256 ELSE ws[i \div 2] % 256]

MkImage(origin, ws) ==
    [size |-> 2 + 2 * Len(ws),
     bytes |-> <<origin \div 256, origin % 256>> \o WordBytes(ws)]

\* Instruction and data words the enumerated images are made of.
InstrWords ==
    { 4159,    \* 0x103F ADD  R0, R0, #-1
      20544,   \* 0x5040 AND  R0, R1, R0
      36927,   \* 0x903F NOT  R0, R0
      1534,    \* 0x05FE BRz  #-2
      2561,    \* 0x0A01 BRnp #1
      49152,   \* 0xC000 JMP  R0
      20478,   \* 0x4FFE JSR  #-2
      16832,   \* 0x41C0 JSRR R7
      8193,    \* 0x2001 LD   R0, #1
      40960,   \* 0xA000 LDI  R0, #0
      24639,   \* 0x603F LDR  R0, R0, #-1
      57855,   \* 0xE1FF LEA  R0, #-1
      12289,   \* 0x3001 ST   R0, #1
      45056,   \* 0xB000 STI  R0, #0
      28672,   \* 0x7000 STR  R0, R0, #0
      32768,   \* 0x8000 RTI  (reserved)
      53539,   \* 0xD123 RES  (reserved), operand bits set
      61472,   \* 0xF020 TRAP GETC
      61473,   \* 0xF021 TRAP OUT
      61474,   \* 0xF022 TRAP PUTS
      61475,   \* 0xF023 TRAP IN
      61476,   \* 0xF024 TRAP PUTSP
      61477,   \* 0xF025 TRAP HALT
      65024,   \* 0xFE00 the keyboard status address; as an instruction, TRAP 0x00
      65535 }  \* 0xFFFF the last address; as an instruction, TRAP 0xFF

\* Longer programs, loaded at 0x3000.
Programs ==
    { <<8193, 49152, 65024>>,          \* LD R0,#1 ; JMP R0 ; .FILL 0xFE00
      <<57345, 61474, 72, 105, 0>>,    \* LEA R0,#1 ; TRAP PUTS ; "Hi"
      \* LD R0,#4 ; STR R0,R0,#0 ; STR R0,R0,#2 ; LDR R1,R0,#0 ; TRAP HALT ; .FILL 0xFE00
      <<8196, 28672, 28674, 25088, 61477, 65024>>,
      \* LEA R0,#-1 ; STI R0,#0 ; .FILL 0xFE00
      <<57855, 45056, 65024>>,
      \* LD R0,#3 ; LD R1,#3 ; STR R1,R0,#0 ; JMP R0 ; .FILL 0xFDFF ; .FILL 0x3200,
      \* which puts ST R1,#0 at 0xFDFF and runs it
      <<8195, 8707, 29184, 49152, 65023, 12800>>,
      <<57346, 16384>>,                \* LEA R0,#2 ; JSRR R0
      <<4159, 29184>> }                \* ADD R0,R0,#-1 ; STR R1,R0,#0

\* Origins at the top of the address space, and the words loaded there.
EdgeOrigins == {65533, 65534}
DataWords == {4660, 72}                \* 0x1234, 'H'

Images ==
    {MkImage(PCStart, ws) : ws \in SeqsUpTo(InstrWords, MaxBody)}
    \cup {MkImage(PCStart, ws) : ws \in Programs}
    \cup {MkImage(o, ws) : o \in EdgeOrigins, ws \in SeqsUpTo(DataWords, MaxBody)}
    \cup { [size |-> 0, bytes |-> <<>>],               \* an empty file
           [size |-> 1, bytes |-> <<48>>],             \* shorter than the header
           [size |-> 5, bytes |-> <<48, 0, 16, 63, 240>>],  \* odd body length
           [size |-> 30, bytes |-> <<255, 254, 18, 52>>],   \* 14 words at 0xFFFE
           [size |-> 65536, bytes |-> <<48, 0, 240, 37>>] } \* too large

\* The loop of the header comment (lines 54-63), assembled at 0x3000 and ended
\* by TRAP HALT.  The bits 8-11 of a TRAP word are not decoded, and the file
\* may go on with data after the program.
LoopWords(halt) ==
    << 20512,    \* 0x5020 AND  R0, R0, #0
       4129,     \* 0x1021 ADD  R0, R0, #1     LOOP
       4662,     \* 0x1236 ADD  R1, R0, #-10
       2557,     \* 0x09FD BRn  LOOP (#-3)
       halt >>   \* 0xF025 TRAP HALT

LoopImages ==
    {MkImage(PCStart, LoopWords(halt) \o tail) :
        halt \in {61477, 61733}, tail \in SeqsUpTo(DataWords, 1)}

ImgByte(img, i) == IF i < Len(img.bytes) THEN img.bytes[i + 1] ELSE 0

\* memcpy(&origin, image, 2) on a little-endian host, then u16Swap.
Origin(img) == u16Swap(ImgByte(img, 0) + 256 * ImgByte(img, 1))

\* usize n = image_size - sizeof(origin), for image_size >= 2.
BodyBytes(img) == img.size - 2

(***************************************************************************)
(* The terminal.  A termios value is its ICANON and ECHO flags and the     *)
(* rest of the structure: "sys" as the system set it, "zero" all zero.     *)
(***************************************************************************)
SystemTio == [icanon |-> TRUE, echo |-> TRUE, rest |-> "sys"]
ZeroTio == [icanon |-> FALSE, echo |-> FALSE, rest |-> "zero"]

\* What a step did: the addresses handed to MemRead, the addresses stored to, the
\* results of CheckKey and of getchar/getc, the bytes written to stdout, and
\* whether memory_ was accessed outside its kMaxMemory words.
NoIO ==
    [reads |-> <<>>, writes |-> <<>>, keys |-> <<>>, chars |-> <<>>, out |-> <<>>,
     oob |-> FALSE]
NoCall == [x |-> 0, n |-> 5, res |-> 0, done |-> FALSE]

Init ==
    /\ pc = "main"
    /\ image \in Images
    /\ loaded = "none"
    /\ mem = EmptyMem
    /\ reg = [i \in 0..(kRegCnt - 1) |-> 0]
    /\ running = FALSE
    /\ tio = SystemTio
    /\ original_tio = ZeroTio
    /\ handler = FALSE
    /\ faddr = 0
    /\ ir = 0
    /\ io = NoIO
    /\ steps = 0
    /\ call = NoCall

(***************************************************************************)
(* VM::LoadImage.  memory_ and reg_ are adjacent members of VM, so the     *)
(* word at index kMaxMemory + i of memory_ is where reg_[i] lives.         *)
(***************************************************************************)
Rejected(img) == img.size = 0 \/ img.size > kMaxMemory

\* The word memcpy leaves at index origin + k, given the word `old` there.
RawWord(img, k, old) ==
    LET n == BodyBytes(img)
        b(j) == ImgByte(img, j + 2)
    IN  IF 2 * k + 1 < n THEN b(2 * k) + 256 * b(2 * k + 1)
        ELSE IF 2 * k < n THEN b(2 * k) + 256 * (old \div 256)
        ELSE old

\* The word the loop of lines 193-197 leaves there: it runs n times.
SwapCount(img) == BodyBytes(img)

LoadedWord(img, k, old) ==
    IF k < SwapCount(img) THEN u16Swap(RawWord(img, k, old)) ELSE RawWord(img, k, old)

\* Indices of memory_ that memcpy or the loop touches, relative to origin.
TouchedCount(img) ==
    LET n == BodyBytes(img)
        words == (n + 1) \div 2
    IN  IF SwapCount(img) > words THEN SwapCount(img) ELSE words

LoadInBounds(img) == Origin(img) + TouchedCount(img) <= kMaxMemory

LoadInObject(img) == Origin(img) + TouchedCount(img) <= kMaxMemory + kRegCnt

LoadedMem(m, img) ==
    LET o == Origin(img)
        touched == {a \in o..(o + TouchedCount(img) - 1) : a < kMaxMemory}
        val(a) == IF a \in touched THEN LoadedWord(img, a - o, Cell(m, a)) ELSE Cell(m, a)
        dom == {a \in (DOMAIN m) \cup touched : val(a) # 0}
    IN  [a \in dom |-> val(a)]

LoadedReg(r, img) ==
    LET o == Origin(img)
    IN  [i \in 0..(kRegCnt - 1) |->
            IF kMaxMemory + i - o \in 0..(TouchedCount(img) - 1)
            THEN LoadedWord(img, kMaxMemory + i - o, r[i])
            ELSE r[i]]

\* main(), lines 425-426: the result of LoadImage is not looked at.
LoadImage ==
    /\ pc = "main"
    /\ IF Rejected(image)
       THEN /\ loaded' = "fail"
            /\ pc' = "run"
            /\ UNCHANGED <<mem, reg>>
       ELSE IF image.size < 2
       THEN \* n wraps to SIZE_MAX: memcpy runs off the buffer and memory_
            /\ pc' = "crashed"
            /\ UNCHANGED <<loaded, mem, reg>>
       ELSE IF LoadInBounds(image)
       THEN /\ loaded' = "ok"
            /\ pc' = "run"
            /\ mem' = LoadedMem(mem, image)
            /\ UNCHANGED reg
       ELSE \* writes past the end of memory_: undefined behaviour.  The words
            \* land in what follows memory_, reg_ first; past the VM object the
            \* process may also die.
            \/ /\ ~LoadInObject(image)
               /\ pc' = "crashed"
               /\ UNCHANGED <<loaded, mem, reg>>
            \/ /\ loaded' = "ok"
               /\ pc' = "run"
               /\ mem' = LoadedMem(mem, image)
               /\ reg' = LoadedReg(reg, image)
    /\ io' = [NoIO EXCEPT !.oob = ~Rejected(image) /\ (image.size < 2 \/ ~LoadInBounds(image))]
    /\ UNCHANGED <<image, running, tio, original_tio, handler, faddr, ir, steps, call>>

(***************************************************************************)
(* VM::Run up to the loop, the exit path, and the interrupt.               *)
(***************************************************************************)
\* line 232: signal(SIGINT, HandleInterrupt)
InstallHandler ==
    /\ pc = "run"
    /\ handler' = TRUE
    /\ pc' = "installed"
    /\ UNCHANGED <<image, loaded, mem, reg, running, tio, original_tio, faddr, ir, io, steps, call>>

\* line 160: tcgetattr(STDIN_FILENO, &original_tio)
SaveTio ==
    /\ pc = "installed"
    /\ original_tio' = tio
    /\ pc' = "saved"
    /\ UNCHANGED <<image, loaded, mem, reg, running, tio, handler, faddr, ir, io, steps, call>>

\* lines 161-163 and 236-239: raw mode, the initial registers, running = true
EnterLoop ==
    /\ pc = "saved"
    /\ tio' = [original_tio EXCEPT !.icanon = FALSE, !.echo = FALSE]
    /\ reg' = [reg EXCEPT ![kRCond] = kFlZro, ![kRPC] = PCStart]
    /\ running' = TRUE
    /\ pc' = "loop"
    /\ UNCHANGED <<image, loaded, mem, original_tio, handler, faddr, ir, io, steps, call>>

RestoreInputBuffering == original_tio

\* lines 400 and 429-431: the loop has ended
Exit ==
    /\ pc = "loop"
    /\ ~running
    /\ tio' = RestoreInputBuffering
    /\ pc' = "exited"
    /\ UNCHANGED <<image, loaded, mem, reg, running, original_tio, handler, faddr, ir, io, steps, call>>

\* SIGINT.  With the handler installed HandleInterrupt runs (lines 153-157);
\* before that the default disposition ends the process.
Interrupt ==
    /\ pc \in {"main", "run", "installed", "saved", "loop"}
    /\ IF handler
       THEN /\ tio' = RestoreInputBuffering
            /\ pc' = "interrupted"
       ELSE /\ pc' = "killed"
            /\ UNCHANGED tio
    /\ UNCHANGED <<image, loaded, mem, reg, running, original_tio, handler, faddr, ir, io, steps, call>>

(***************************************************************************)
(* The environment of one memory read: what CheckKey and getchar would     *)
(* return, and the word an out-of-bounds read of memory_ yields.           *)
(***************************************************************************)
\* Results of getchar()/getc(): EOF, NUL, 'A', a byte above 127.
Chars == {-1, 0, 65, 200}

\* memory_[kMaxMemory] is undefined behaviour; reg_[0] is what lies there.
OobWords(rg) == {rg[kR0], 0, 53248}

EnvFor(rg, addr) ==
    IF addr = kKeyboardStatus
    THEN {[key |-> FALSE, ch |-> 0, ub |-> 0]}
         \cup {[key |-> TRUE, ch |-> c, ub |-> 0] : c \in Chars}
    ELSE IF addr >= kMaxMemory
    THEN {[key |-> FALSE, ch |-> 0, ub |-> v] : v \in OobWords(rg)}
    ELSE {[key |-> FALSE, ch |-> 0, ub |-> 0]}

\* Whether this read goes through the keyboard device.
PollsKeyboardAlways(addr) == TRUE

PollsKeyboard(addr) == addr = kKeyboardStatus

\* MemRead reading a character at the status address whatever the poll said.
MemReadAlwaysGetsChar(m, addr, e) ==
    LET polled == PollsKeyboard(addr)
        m1 == IF ~polled THEN m
              ELSE MemSet(MemSet(m, kKeyboardStatus, IF e.key THEN Shl(1, 15) ELSE 0),
                          kKeyboardData, u16(e.ch))
    IN  [mem |-> m1,
         val |-> IF addr < kMaxMemory THEN Cell(m1, addr) ELSE e.ub,
         keys |-> IF polled THEN <<e.key>> ELSE <<>>,
         chars |-> IF polled THEN <<e.ch>> ELSE <<>>,
         oob |-> addr >= kMaxMemory]

\* VM::MemRead: the memory after the read, the word returned, and the calls made.
MemRead(m, addr, e) ==
    LET polled == PollsKeyboard(addr)
        m1 == IF ~polled THEN m
              ELSE IF e.key
              THEN MemSet(MemSet(m, kKeyboardStatus, Shl(1, 15)), kKeyboardData, u16(e.ch))
              ELSE MemSet(m, kKeyboardStatus, 0)
    IN  [mem |-> m1,
         val |-> IF addr < kMaxMemory THEN Cell(m1, addr) ELSE e.ub,
         keys |-> IF polled THEN <<e.key>> ELSE <<>>,
         chars |-> IF polled /\ e.key THEN <<e.ch>> ELSE <<>>,
         oob |-> addr >= kMaxMemory]

\* memory_[addr] = v.  Index kMaxMemory is outside memory_: the store lands in
\* reg_[0], or is lost.
StoreOutcomes(addr) == IF addr < kMaxMemory THEN {"cell"} ELSE {"reg", "lost"}

\* Store leaving the keyboard cells to the device.
StoreSkipsDevice(m, rg, addr, v, outcome) ==
    IF addr \in {kKeyboardStatus, kKeyboardData} THEN [mem |-> m, reg |-> rg]
    ELSE IF addr < kMaxMemory THEN [mem |-> MemSet(m, addr, v), reg |-> rg]
    ELSE IF outcome = "reg" THEN [mem |-> m, reg |-> [rg EXCEPT ![kR0] = v]]
    ELSE [mem |-> m, reg |-> rg]

Store(m, rg, addr, v, outcome) ==
    IF addr < kMaxMemory THEN [mem |-> MemSet(m, addr, v), reg |-> rg]
    ELSE IF outcome = "reg" THEN [mem |-> m, reg |-> [rg EXCEPT ![kR0] = v]]
    ELSE [mem |-> m, reg |-> rg]

UpdateFlagSwapped(rg, r) ==
    IF rg[r] = 0 THEN [rg EXCEPT ![kRCond] = kFlZro]
    ELSE IF Shr(rg[r], 15) # 0 THEN [rg EXCEPT ![kRCond] = kFlPos]
    ELSE [rg EXCEPT ![kRCond] = kFlNeg]

UpdateFlag(rg, r) ==
    IF rg[r] = 0 THEN [rg EXCEPT ![kRCond] = kFlZro]
    ELSE IF Shr(rg[r], 15) # 0 THEN [rg EXCEPT ![kRCond] = kFlNeg]
    ELSE [rg EXCEPT ![kRCond] = kFlPos]

(***************************************************************************)
(* One pass of the loop of VM::Run.                                        *)
(***************************************************************************)
\* The number of passes explored: the loop program needs 32 of them.
StepBound == IF image \in LoopImages THEN MaxLoopSteps ELSE MaxSteps

Fetching == pc = "loop" /\ running /\ steps < StepBound

\* reg_[kRPC]++ on a u16
NextPC(a) == u16(a + 1)

\* lines 241-243
Fetch(e) ==
    LET a == reg[kRPC]
        r == MemRead(mem, a, e)
    IN  [addr |-> a, instr |-> r.val, op |-> Shr(r.val, 12), mem |-> r.mem,
         reg |-> [reg EXCEPT ![kRPC] = NextPC(a)],
         keys |-> r.keys, chars |-> r.chars, oob |-> r.oob]

PCOffsetFromFetch(f, off) == u16(f.addr + off)

\* reg_[kRPC] + SignExtend(...) on u16, after the fetch
PCOffset(f, off) == u16(f.reg[kRPC] + off)

\* The end of a pass: f is the fetch, m2 and r2 memory_ and reg_ as the
\* instruction leaves them, x what the instruction did besides the fetch.
Finish(f, m2, r2, run, x) ==
    /\ faddr' = f.addr
    /\ ir' = f.instr
    /\ mem' = m2
    /\ reg' = r2
    /\ running' = run
    /\ io' = [reads |-> <<f.addr>> \o x.reads, writes |-> x.writes,
              keys |-> f.keys \o x.keys, chars |-> f.chars \o x.chars,
              out |-> x.out, oob |-> f.oob \/ x.oob]
    /\ steps' = steps + 1
    /\ UNCHANGED <<pc, image, loaded, tio, original_tio, handler, call>>

\* lines 246-256
ExecAdd ==
    /\ Fetching
    /\ \E e \in EnvFor(reg, reg[kRPC]) :
        LET f == Fetch(e)
            r0 == R0(f.instr)
            r1 == R1(f.instr)
            v == IF BitAnd(Shr(f.instr, 5), 1) # 0
                 THEN u16(f.reg[r1] + SignExtend(BitAnd(f.instr, 31), 5))
                 ELSE u16(f.reg[r1] + f.reg[R2(f.instr)])
        IN  /\ f.op = kOpAdd
            /\ Finish(f, f.mem, UpdateFlag([f.reg EXCEPT ![r0] = v], r0), TRUE, NoIO)

\* lines 257-267
ExecAnd ==
    /\ Fetching
    /\ \E e \in EnvFor(reg, reg[kRPC]) :
        LET f == Fetch(e)
            r0 == R0(f.instr)
            r1 == R1(f.instr)
            v == IF BitAnd(Shr(f.instr, 5), 1) # 0
                 THEN BitAnd(f.reg[r1], SignExtend(BitAnd(f.instr, 31), 5))
                 ELSE BitAnd(f.reg[r1], f.reg[R2(f.instr)])
        IN  /\ f.op = kOpAnd
            /\ Finish(f, f.mem, UpdateFlag([f.reg EXCEPT ![r0] = v], r0), TRUE, NoIO)

\* ExecBr with a branch that is never taken.
ExecBrFallsThrough ==
    /\ Fetching
    /\ \E e \in EnvFor(reg, reg[kRPC]) :
        LET f == Fetch(e)
        IN  /\ f.op = kOpBr
            /\ Finish(f, f.mem, f.reg, TRUE, NoIO)

\* lines 268-273
ExecBr ==
    /\ Fetching
    /\ \E e \in EnvFor(reg, reg[kRPC]) :
        LET f == Fetch(e)
            taken == BitAnd(f.reg[kRCond], BitAnd(Shr(f.instr, 9), 7)) # 0
            target == PCOffset(f, SignExtend(BitAnd(f.instr, 511), 9))
        IN  /\ f.op = kOpBr
            /\ Finish(f, f.mem,
                      IF taken THEN [f.reg EXCEPT ![kRPC] = target] ELSE f.reg,
                      TRUE, NoIO)

\* lines 274-277
ExecJmp ==
    /\ Fetching
    /\ \E e \in EnvFor(reg, reg[kRPC]) :
        LET f == Fetch(e)
        IN  /\ f.op = kOpJmp
            /\ Finish(f, f.mem, [f.reg EXCEPT ![kRPC] = f.reg[R1(f.instr)]], TRUE, NoIO)

\* ExecJsr reading the base register before the link is written.
ExecJsrTargetFirst ==
    /\ Fetching
    /\ \E e \in EnvFor(reg, reg[kRPC]) :
        LET f == Fetch(e)
            target == IF BitAnd(Shr(f.instr, 11), 1) # 0
                      THEN PCOffset(f, SignExtend(BitAnd(f.instr, 2047), 11))
                      ELSE f.reg[R1(f.instr)]
        IN  /\ f.op = kOpJsr
            /\ Finish(f, f.mem, [f.reg EXCEPT ![kR7] = f.reg[kRPC], ![kRPC] = target],
                      TRUE, NoIO)

\* lines 278-288
ExecJsr ==
    /\ Fetching
    /\ \E e \in EnvFor(reg, reg[kRPC]) :
        LET f == Fetch(e)
            linked == [f.reg EXCEPT ![kR7] = f.reg[kRPC]]
            target == IF BitAnd(Shr(f.instr, 11), 1) # 0
                      THEN PCOffset(f, SignExtend(BitAnd(f.instr, 2047), 11))
                      ELSE linked[R1(f.instr)]
        IN  /\ f.op = kOpJsr
            /\ Finish(f, f.mem, [linked EXCEPT ![kRPC] = target], TRUE, NoIO)

\* lines 289-295
ExecLd ==
    /\ Fetching
    /\ \E e \in EnvFor(reg, reg[kRPC]) :
        LET f == Fetch(e)
            r0 == R0(f.instr)
            addr == PCOffset(f, SignExtend(BitAnd(f.instr, 511), 9))
        IN  /\ f.op = kOpLd
            /\ \E e1 \in EnvFor(f.reg, addr) :
                LET rd == MemRead(f.mem, addr, e1)
                IN  Finish(f, rd.mem, UpdateFlag([f.reg EXCEPT ![r0] = rd.val], r0), TRUE,
                           [NoIO EXCEPT !.reads = <<addr>>, !.keys = rd.keys,
                                        !.chars = rd.chars, !.oob = rd.oob])

\* lines 296-302
ExecLdi ==
    /\ Fetching
    /\ \E e \in EnvFor(reg, reg[kRPC]) :
        LET f == Fetch(e)
            r0 == R0(f.instr)
            addr == PCOffset(f, SignExtend(BitAnd(f.instr, 511), 9))
        IN  /\ f.op = kOpLdi
            /\ \E e1 \in EnvFor(f.reg, addr) :
                LET rd1 == MemRead(f.mem, addr, e1)
                IN  \E e2 \in EnvFor(f.reg, rd1.val) :
                    LET rd2 == MemRead(rd1.mem, rd1.val, e2)
                    IN  Finish(f, rd2.mem,
                               UpdateFlag([f.reg EXCEPT ![r0] = rd2.val], r0), TRUE,
                               [NoIO EXCEPT !.reads = <<addr, rd1.val>>,
                                            !.keys = rd1.keys \o rd2.keys,
                                            !.chars = rd1.chars \o rd2.chars,
                                            !.oob = rd1.oob \/ rd2.oob])

\* lines 303-309
ExecLdr ==
    /\ Fetching
    /\ \E e \in EnvFor(reg, reg[kRPC]) :
        LET f == Fetch(e)
            r0 == R0(f.instr)
            addr == u16(f.reg[R1(f.instr)] + SignExtend(BitAnd(f.instr, 63), 6))
        IN  /\ f.op = kOpLdr
            /\ \E e1 \in EnvFor(f.reg, addr) :
                LET rd == MemRead(f.mem, addr, e1)
                IN  Finish(f, rd.mem, UpdateFlag([f.reg EXCEPT ![r0] = rd.val], r0), TRUE,
                           [NoIO EXCEPT !.reads = <<addr>>, !.keys = rd.keys,
                                        !.chars = rd.chars, !.oob = rd.oob])

\* lines 310-315
ExecLea ==
    /\ Fetching
    /\ \E e \in EnvFor(reg, reg[kRPC]) :
        LET f == Fetch(e)
            r0 == R0(f.instr)
            v == PCOffset(f, SignExtend(BitAnd(f.instr, 511), 9))
        IN  /\ f.op = kOpLea
            /\ Finish(f, f.mem, UpdateFlag([f.reg EXCEPT ![r0] = v], r0), TRUE, NoIO)

\* lines 316-321: ~ on the promoted int, truncated by the assignment
ExecNot ==
    /\ Fetching
    /\ \E e \in EnvFor(reg, reg[kRPC]) :
        LET f == Fetch(e)
            r0 == R0(f.instr)
            v == u16(-1 - f.reg[R1(f.instr)])
        IN  /\ f.op = kOpNot
            /\ Finish(f, f.mem, UpdateFlag([f.reg EXCEPT ![r0] = v], r0), TRUE, NoIO)

\* lines 322-326: printf("bad opcode"); running = false
StrBadOpcode == <<98, 97, 100, 32, 111, 112, 99, 111, 100, 101>>

\* ExecBadOpcode without `running = false`.
ExecBadOpcodeGoesOn ==
    /\ Fetching
    /\ \E e \in EnvFor(reg, reg[kRPC]) :
        LET f == Fetch(e)
        IN  /\ f.op \in {kOpRti, kOpRes}
            /\ Finish(f, f.mem, f.reg, TRUE, [NoIO EXCEPT !.out = StrBadOpcode])

ExecBadOpcode ==
    /\ Fetching
    /\ \E e \in EnvFor(reg, reg[kRPC]) :
        LET f == Fetch(e)
        IN  /\ f.op \in {kOpRti, kOpRes}
            /\ Finish(f, f.mem, f.reg, FALSE, [NoIO EXCEPT !.out = StrBadOpcode])

\* lines 327-331
ExecSt ==
    /\ Fetching
    /\ \E e \in EnvFor(reg, reg[kRPC]) :
        LET f == Fetch(e)
            addr == PCOffset(f, SignExtend(BitAnd(f.instr, 511), 9))
        IN  /\ f.op = kOpSt
            /\ \E o \in StoreOutcomes(addr) :
                LET st == Store(f.mem, f.reg, addr, f.reg[R0(f.instr)], o)
                IN  Finish(f, st.mem, st.reg, TRUE,
                           [NoIO EXCEPT !.writes = <<addr>>, !.oob = addr >= kMaxMemory])

\* lines 332-336
ExecSti ==
    /\ Fetching
    /\ \E e \in EnvFor(reg, reg[kRPC]) :
        LET f == Fetch(e)
            addr == PCOffset(f, SignExtend(BitAnd(f.instr, 511), 9))
        IN  /\ f.op = kOpSti
            /\ \E e1 \in EnvFor(f.reg, addr) :
                LET rd == MemRead(f.mem, addr, e1)
                IN  \E o \in StoreOutcomes(rd.val) :
                    LET st == Store(rd.mem, f.reg, rd.val, f.reg[R0(f.instr)], o)
                    IN  Finish(f, st.mem, st.reg, TRUE,
                               [NoIO EXCEPT !.reads = <<addr>>, !.writes = <<rd.val>>,
                                            !.keys = rd.keys, !.chars = rd.chars,
                                            !.oob = rd.oob \/ rd.val >= kMaxMemory])

\* lines 337-341
ExecStr ==
    /\ Fetching
    /\ \E e \in EnvFor(reg, reg[kRPC]) :
        LET f == Fetch(e)
            addr == u16(f.reg[R1(f.instr)] + SignExtend(BitAnd(f.instr, 63), 6))
        IN  /\ f.op = kOpStr
            /\ \E o \in StoreOutcomes(addr) :
                LET st == Store(f.mem, f.reg, addr, f.reg[R0(f.instr)], o)
                IN  Finish(f, st.mem, st.reg, TRUE,
                           [NoIO EXCEPT !.writes = <<addr>>, !.oob = addr >= kMaxMemory])

(***************************************************************************)
(* The traps, lines 342-392.                                               *)
(***************************************************************************)
TrapCode(instr) == BitAnd(instr, 255)

\* lines 344-348: reg_[kR0] = getchar()
TrapGetc ==
    /\ Fetching
    /\ \E e \in EnvFor(reg, reg[kRPC]) :
        LET f == Fetch(e)
        IN  /\ f.op = kOpTrap
            /\ TrapCode(f.instr) = kTrapGetc
            /\ \E c \in Chars :
                Finish(f, f.mem, UpdateFlag([f.reg EXCEPT ![kR0] = u16(c)], kR0), TRUE,
                       [NoIO EXCEPT !.chars = <<c>>])

\* lines 349-353: putc writes its argument converted to unsigned char
TrapOut ==
    /\ Fetching
    /\ \E e \in EnvFor(reg, reg[kRPC]) :
        LET f == Fetch(e)
        IN  /\ f.op = kOpTrap
            /\ TrapCode(f.instr) = kTrapOut
            /\ Finish(f, f.mem, f.reg, TRUE, [NoIO EXCEPT !.out = <<f.reg[kR0] % 256>>])

\* The word a pointer into memory_ reads at index a: past memory_ lie reg_[0..9].
FlatCell(m, rg, a) == IF a < kMaxMemory THEN Cell(m, a) ELSE rg[a - kMaxMemory]

\* while (*c) ++c: the index of the first zero word from a on, within the VM object.
RECURSIVE WalkEnd(_, _, _)
WalkEnd(m, rg, a) ==
    IF a >= kMaxMemory + kRegCnt THEN a
    ELSE IF FlatCell(m, rg, a) = 0 THEN a
    ELSE WalkEnd(m, rg, a + 1)

\* The walk reads index kMaxMemory or beyond.
WalkOob(m, rg, a) == WalkEnd(m, rg, a) >= kMaxMemory

PutsOut(m, rg, a) ==
    [i \in 1..(WalkEnd(m, rg, a) - a) |-> FlatCell(m, rg, a + i - 1) % 256]

RECURSIVE PutspOut(_, _, _)
PutspOut(m, rg, a) ==
    IF a >= WalkEnd(m, rg, a) THEN <<>>
    ELSE LET w == FlatCell(m, rg, a)
             c1 == BitAnd(w, 255)
             c2 == Shr(w, 8)
         IN  <<c1>> \o (IF c2 # 0 THEN <<c2>> ELSE <<>>) \o PutspOut(m, rg, a + 1)

\* A walk that leaves the VM object reads what the stack holds there: a zero
\* word at once, or one more character first.
WalkTails(m, rg, a) ==
    IF WalkEnd(m, rg, a) >= kMaxMemory + kRegCnt THEN {<<>>, <<63>>} ELSE {<<>>}

\* lines 354-362
TrapPuts ==
    /\ Fetching
    /\ \E e \in EnvFor(reg, reg[kRPC]) :
        LET f == Fetch(e)
            a == f.reg[kR0]
            oob == WalkOob(f.mem, f.reg, a)
        IN  /\ f.op = kOpTrap
            /\ TrapCode(f.instr) = kTrapPuts
            /\ \E tail \in WalkTails(f.mem, f.reg, a) :
                Finish(f, f.mem, f.reg, TRUE,
                       [NoIO EXCEPT !.out = PutsOut(f.mem, f.reg, a) \o tail, !.oob = oob])

\* lines 363-371: char c = getc(stdin); whether char is signed is up to the platform
StrPrompt ==
    <<69, 110, 116, 101, 114, 32, 97, 32, 99, 104, 97, 114, 97, 99, 116, 101, 114, 58, 32>>

TrapIn ==
    /\ Fetching
    /\ \E e \in EnvFor(reg, reg[kRPC]) :
        LET f == Fetch(e)
        IN  /\ f.op = kOpTrap
            /\ TrapCode(f.instr) = kTrapIn
            /\ \E c \in Chars, signedChar \in BOOLEAN :
                LET b == c % 256
                    v == IF signedChar /\ b >= 128 THEN b - 256 ELSE b
                IN  Finish(f, f.mem, UpdateFlag([f.reg EXCEPT ![kR0] = u16(v)], kR0), TRUE,
                           [NoIO EXCEPT !.chars = <<c>>, !.out = StrPrompt \o <<b>>])

\* lines 372-383
TrapPutsp ==
    /\ Fetching
    /\ \E e \in EnvFor(reg, reg[kRPC]) :
        LET f == Fetch(e)
            a == f.reg[kR0]
            oob == WalkOob(f.mem, f.reg, a)
        IN  /\ f.op = kOpTrap
            /\ TrapCode(f.instr) = kTrapPutsp
            /\ \E tail \in WalkTails(f.mem, f.reg, a) :
                Finish(f, f.mem, f.reg, TRUE,
                       [NoIO EXCEPT !.out = PutspOut(f.mem, f.reg, a) \o tail, !.oob = oob])

\* lines 384-389: running = false; puts("halt")
StrHalt == <<104, 97, 108, 116, 10>>

TrapHalt ==
    /\ Fetching
    /\ \E e \in EnvFor(reg, reg[kRPC]) :
        LET f == Fetch(e)
        IN  /\ f.op = kOpTrap
            /\ TrapCode(f.instr) = kTrapHalt
            /\ Finish(f, f.mem, f.reg, FALSE, [NoIO EXCEPT !.out = StrHalt])

TrapCodes == {kTrapGetc, kTrapOut, kTrapPuts, kTrapIn, kTrapPutsp, kTrapHalt}

\* TrapOther treating the code as an illegal instruction.
TrapOtherHalts ==
    /\ Fetching
    /\ \E e \in EnvFor(reg, reg[kRPC]) :
        LET f == Fetch(e)
        IN  /\ f.op = kOpTrap
            /\ TrapCode(f.instr) \notin TrapCodes
            /\ Finish(f, f.mem, f.reg, FALSE, [NoIO EXCEPT !.out = StrBadOpcode])

\* TrapOther handled as a read into R0 that got nothing.
TrapOtherClearsR0 ==
    /\ Fetching
    /\ \E e \in EnvFor(reg, reg[kRPC]) :
        LET f == Fetch(e)
        IN  /\ f.op = kOpTrap
            /\ TrapCode(f.instr) \notin TrapCodes
            /\ Finish(f, f.mem, UpdateFlag([f.reg EXCEPT ![kR0] = 0], kR0), TRUE, NoIO)

\* the inner switch has no default: any other trap code does nothing
TrapOther ==
    /\ Fetching
    /\ \E e \in EnvFor(reg, reg[kRPC]) :
        LET f == Fetch(e)
        IN  /\ f.op = kOpTrap
            /\ TrapCode(f.instr) \notin TrapCodes
            /\ Finish(f, f.mem, f.reg, TRUE, NoIO)

\* The default of the outer switch (lines 393-396) is unreachable: op has four
\* bits and all sixteen values have a case.
Step ==
    \/ ExecAdd \/ ExecAnd \/ ExecBr \/ ExecJmp \/ ExecJsr
    \/ ExecLd \/ ExecLdi \/ ExecLdr \/ ExecLea \/ ExecNot
    \/ ExecBadOpcode \/ ExecSt \/ ExecSti \/ ExecStr
    \/ TrapGetc \/ TrapOut \/ TrapPuts \/ TrapIn \/ TrapPutsp \/ TrapHalt \/ TrapOther

Next ==
    \/ LoadImage
    \/ InstallHandler
    \/ SaveTio
    \/ EnterLoop
    \/ Step
    \/ Exit
    \/ Interrupt

Spec == Init /\ [][Next]_vars

(***************************************************************************)
(* The loop program on its own: main() run on an image of LoopImages.  The *)
(* process is one thread which the system keeps scheduling, so its own     *)
(* steps are weakly fair; an interrupt may come at any time or never.      *)
(***************************************************************************)
InitLoop ==
    /\ pc = "main"
    /\ image \in LoopImages
    /\ loaded = "none"
    /\ mem = EmptyMem
    /\ reg = [i \in 0..(kRegCnt - 1) |-> 0]
    /\ running = FALSE
    /\ tio = SystemTio
    /\ original_tio = ZeroTio
    /\ handler = FALSE
    /\ faddr = 0
    /\ ir = 0
    /\ io = NoIO
    /\ steps = 0
    /\ call = NoCall

StepLoop == ExecAnd \/ ExecAdd \/ ExecBr \/ TrapHalt

ProgramLoop == LoadImage \/ InstallHandler \/ SaveTio \/ EnterLoop \/ StepLoop \/ Exit

NextLoop == ProgramLoop \/ Interrupt

SpecLoop == InitLoop /\ [][NextLoop]_vars /\ WF_vars(ProgramLoop)

(***************************************************************************)
(* SignExtend on its own: every field value of the widths the decoder      *)
(* uses (IMM5, offset6, PCoffset9, PCoffset11).                            *)
(***************************************************************************)
FieldWidths == {5, 6, 9, 11}

InitSignExtend ==
    /\ pc = "main"
    /\ image = [size |-> 0, bytes |-> <<>>]
    /\ loaded = "none"
    /\ mem = EmptyMem
    /\ reg = [i \in 0..(kRegCnt - 1) |-> 0]
    /\ running = FALSE
    /\ tio = SystemTio
    /\ original_tio = ZeroTio
    /\ handler = FALSE
    /\ faddr = 0
    /\ ir = 0
    /\ io = NoIO
    /\ steps = 0
    /\ call \in {[x |-> x, n |-> n, res |-> 0, done |-> FALSE] :
                    x \in 0..2047, n \in FieldWidths}
    /\ call.x < 2 ^ call.n

CallSignExtend ==
    /\ ~call.done
    /\ call' = [call EXCEPT !.res = SignExtend(call.x, call.n), !.done = TRUE]
    /\ UNCHANGED <<pc, image, loaded, mem, reg, running, tio, original_tio, handler,
                   faddr, ir, io, steps>>

NextSignExtend == CallSignExtend

SpecSignExtend == InitSignExtend /\ [][NextSignExtend]_vars

(***************************************************************************)
(* Properties.  They are stated with plain arithmetic on the instruction   *)
(* word, not with the operators the actions are built from.                *)
(***************************************************************************)
OpOf(instr) == instr \div 4096
Field(instr, lo, width) == (instr \div (2 ^ lo)) % (2 ^ width)
Signed(x, n) == IF x >= 2 ^ (n - 1) THEN x - 2 ^ n ELSE x
Executed == steps > 0
GeneralRegs == 0..7

FlagTriggering(instr) ==
    \/ OpOf(instr) \in {1, 5, 9, 2, 10, 6, 14}
    \/ OpOf(instr) = 15 /\ instr % 256 \in {32, 35}

DestOf(instr) == IF OpOf(instr) = 15 THEN 0 ELSE Field(instr, 9, 3)

FlagFor(v) == IF v >= 32768 THEN 4 ELSE IF v = 0 THEN 2 ELSE 1

\* C1: after a flag-triggering instruction wrote v to its destination register
\* the flags are NEG if bit 15 of v is 1, else ZERO if v = 0, else POS; and in
\* every state of a run the flags are one of POS, ZERO, NEG.
C1_FlagRule ==
    /\ (Executed /\ FlagTriggering(ir)) => reg[kRCond] = FlagFor(reg[DestOf(ir)])
    /\ (pc = "loop" \/ Executed) => reg[kRCond] \in {1, 2, 4}

\* C1 witness: ADD R0,R0,#-1 has written 0xFFFF and the flags are NEG.
C1_Witness ==
    /\ Executed
    /\ OpOf(ir) = 1
    /\ reg[0] = 65535
    /\ reg[kRCond] = 4

\* C2: every address used for a fetch, a load or a store is a cell of Memory,
\* so no access outside Memory occurs during execution.
C2_NoAccessOutsideMemory ==
    Executed =>
        /\ \A i \in DOMAIN io.reads : io.reads[i] \in 0..(kMaxMemory - 1)
        /\ \A i \in DOMAIN io.writes : io.writes[i] \in 0..(kMaxMemory - 1)
        /\ ~io.oob

\* C3 as stated: every memory read of a step, at any address, polls the
\* keyboard exactly once.
C3_PollOnEveryRead ==
    Executed => Len(io.keys) = Len(io.reads)

StatusReads == {i \in DOMAIN io.reads : io.reads[i] = 65024}

\* C3 as amended: a memory read polls the keyboard exactly when its address is
\* the status address 0xFE00; then pending input sets Memory[0xFE00] to 0x8000
\* and copies the character into Memory[0xFE02], no pending input clears
\* Memory[0xFE00], and the word returned is the one the poll left; a step
\* polls at most once, LDI included.
C3_PollOnlyAtStatusAddress ==
    Executed =>
        /\ Len(io.keys) = Cardinality(StatusReads)
        /\ Len(io.keys) <= 1
        /\ io.keys = <<TRUE>> =>
              /\ Cell(mem, 65024) = 32768
              /\ Cell(mem, 65026) = io.chars[1] % 65536
        /\ io.keys = <<FALSE>> => Cell(mem, 65024) = 0 /\ io.chars = <<>>
        /\ (io.keys # <<>> /\ OpOf(ir) \in {2, 6, 10} /\ io.reads[Len(io.reads)] = 65024)
              => reg[DestOf(ir)] = Cell(mem, 65024)

\* C3 witness: LDI through a pointer to 0xFE00 with input pending: three reads, one poll.
C3_Witness ==
    /\ Executed
    /\ OpOf(ir) = 10
    /\ io.reads = <<12288, 12289, 65024>>
    /\ io.keys = <<TRUE>>
    /\ Cell(mem, 65026) = 65
    /\ reg[0] = 32768

\* C4: when load fails the run is aborted: the engine never enters Running and
\* no instruction is fetched or executed.
C4_FailedLoadNeverRuns ==
    loaded = "fail" => (~running /\ ~Executed /\ pc \in {"main", "run", "killed"})

\* C5: on every exit path after the interrupt handler was installed the
\* terminal mode at process exit is the mode the terminal had before the run.
C5_TerminalRestoredAtExit ==
    (loaded = "ok" /\ pc \in {"exited", "interrupted"}) => tio = SystemTio

HaltingInstr(instr) ==
    \/ OpOf(instr) \in {8, 13}
    \/ OpOf(instr) = 15 /\ instr % 256 = 37

IsRunning == pc = "loop" /\ running
IsHalted == pc = "loop" /\ ~running
ExecutesOne == IsRunning /\ steps' = steps + 1

\* C6: the engine leaves Running only by TRAP HALT, a reserved opcode (0x8,
\* 0xD) or an interrupt; every other instruction, a TRAP with an unknown code
\* included, leaves it Running; once Halted nothing is fetched or executed and
\* no register or memory cell changes.
C6_HaltingIsExhaustive ==
    [][ /\ (IsRunning /\ ~IsRunning') =>
              \/ pc' = "interrupted"
              \/ IsHalted' /\ steps' = steps + 1 /\ HaltingInstr(ir')
        /\ (ExecutesOne /\ ~HaltingInstr(ir')) => IsRunning'
        /\ (ExecutesOne /\ HaltingInstr(ir')) => IsHalted'
        /\ (pc = "loop" /\ ~running) =>
              /\ ~running'
              /\ UNCHANGED <<mem, reg, steps, faddr, ir, io>>
        /\ pc \in {"exited", "interrupted", "killed", "crashed"} => UNCHANGED vars
      ]_vars

\* C6 witness: a TRAP with an unknown code was executed and the engine is Running.
C6_Witness ==
    /\ IsRunning
    /\ Executed
    /\ OpOf(ir) = 15
    /\ ir % 256 \notin 32..37

ExecutesReserved == ExecutesOne /\ OpOf(ir') \in {8, 13}

ReservedFrame ==
    /\ IsHalted'
    /\ \A r \in GeneralRegs : reg'[r] = reg[r]
    /\ reg'[kRCond] = reg[kRCond]
    /\ reg'[kRPC] = (reg[kRPC] + 1) % 65536

\* C7 as stated: a reserved opcode halts the engine and changes nothing but the
\* program counter and the run state: no memory cell, general register or flag.
C7_ReservedChangesNothing ==
    [][ExecutesReserved => (ReservedFrame /\ mem' = mem)]_vars

\* C7 as amended: a reserved opcode halts the engine and leaves the general
\* registers and the flags unchanged, and every memory cell unchanged except
\* the keyboard cells 0xFE00 and 0xFE02, which the poll of the fetch writes
\* when the instruction is fetched from 0xFE00.
C7_ReservedChangesOnlyKeyboardCells ==
    [][ExecutesReserved =>
          /\ ReservedFrame
          /\ \A a \in (DOMAIN mem) \cup (DOMAIN mem') :
                a \notin {65024, 65026} => Cell(mem', a) = Cell(mem, a)
          /\ reg[kRPC] # 65024 => mem' = mem
      ]_vars

\* C7 witness: the reserved word 0x8000 was fetched from 0xFE00, where the poll put it.
C7_Witness ==
    /\ IsHalted
    /\ faddr = 65024
    /\ ir = 32768
    /\ Cell(mem, 65026) = 65
    /\ reg[kRPC] = 65025

BrTaken(instr, flags) ==
    \/ Field(instr, 11, 1) = 1 /\ flags = 4
    \/ Field(instr, 10, 1) = 1 /\ flags = 2
    \/ Field(instr, 9, 1) = 1 /\ flags = 1

\* C8: a fetch reads the word at the program counter and sets the program
\* counter to (PC + 1) mod 65536 before the instruction executes; BR taken,
\* JSR, LD, LDI, LEA, ST and STI compute their target as
\* (PC + 1 + sign-extended offset) mod 65536.
C8_FetchIncrementsFirst ==
    [][ExecutesOne =>
          LET A == reg[kRPC]
              P == (A + 1) % 65536
              i == ir'
              T9 == (P + Signed(i % 512, 9)) % 65536
              T11 == (P + Signed(i % 2048, 11)) % 65536
          IN  /\ faddr' = A
              /\ io'.reads[1] = A
              /\ (A < kMaxMemory /\ A # 65024) => i = Cell(mem, A)
              /\ A = 65024 => i = Cell(mem', A)
              /\ OpOf(i) \notin {0, 4, 12} => reg'[kRPC] = P
              /\ OpOf(i) = 0 =>
                    reg'[kRPC] = IF BrTaken(i, reg[kRCond]) THEN T9 ELSE P
              /\ (OpOf(i) = 4 /\ Field(i, 11, 1) = 1) => reg'[kRPC] = T11
              /\ OpOf(i) \in {2, 10, 11} => io'.reads[2] = T9
              /\ OpOf(i) = 14 => reg'[DestOf(i)] = T9
              /\ OpOf(i) = 3 => io'.writes = <<T9>>
      ]_vars

\* C8 witness: an instruction was fetched at 0xFFFF and the program counter wrapped to 0.
C8_Witness ==
    /\ Executed
    /\ faddr = 65535
    /\ reg[kRPC] = 0

\* C9: SignExtend(x, n), n in {5, 6, 9, 11}, x an n-bit value, is x when bit
\* n-1 of x is 0 and x with bits n..15 set when it is 1: the 16-bit two's
\* complement encoding of the field's signed value.
C9_SignExtend ==
    call.done =>
        /\ call.res = IF Field(call.x, call.n - 1, 1) = 0
                      THEN call.x
                      ELSE call.x + (65536 - 2 ^ call.n)
        /\ call.res = Signed(call.x, call.n) % 65536

\* C9 witness: 0b11111 over 5 bits gave 0xFFFF.
C9_Witness ==
    /\ call.done
    /\ call.n = 5
    /\ call.x = 31
    /\ call.res = 65535

ImageOrigin == image.bytes[1] * 256 + image.bytes[2]
ImageBody(j) == IF j + 2 < Len(image.bytes) THEN image.bytes[j + 3] ELSE 0

\* C10: after a successful load of an image with origin O and N body bytes, N
\* even and O + N/2 <= 65536, Memory[O + i] = body[2i] * 256 + body[2i+1] for
\* every i in 0..N/2-1.
C10_LoadRoundTrip ==
    (/\ pc # "main"
     /\ image.size \in 2..65535
     /\ (image.size - 2) % 2 = 0
     /\ ImageOrigin + (image.size - 2) \div 2 <= 65536)
    => /\ pc # "crashed"
       /\ pc = "run" =>
             /\ loaded = "ok"
             /\ \A i \in 0..((image.size - 2) \div 2 - 1) :
                   /\ ImageOrigin + i \in 0..(kMaxMemory - 1)
                   /\ Cell(mem, ImageOrigin + i) = ImageBody(2 * i) * 256 + ImageBody(2 * i + 1)

Interrupted == pc \in {"interrupted", "killed"}

\* C11: run on the loop image (AND R0,R0,0; LOOP: ADD R0,R0,1; ADD R1,R0,-10;
\* BRn LOOP; TRAP HALT at 0x3000) the engine, unless the user interrupts it,
\* eventually reaches Halted; the loop body is executed exactly ten times (the
\* k-th execution of ADD R0,R0,1 is pass 3k-1 and leaves R0 = k, the halt is
\* pass 32), and in the Halted state register 0 equals 10.
C11_LoopReachesHalted ==
    /\ <>(IsHalted \/ Interrupted)
    /\ [](IsHalted => (reg[0] = 10 /\ reg[1] = 0 /\ steps = 32 /\ HaltingInstr(ir)))
    /\ []((Executed /\ faddr = 12289) =>
            (ir = 4129 /\ steps = 3 * reg[0] - 1 /\ reg[0] \in 1..10))

\* C11 witness: the engine is Halted after the tenth pass of the loop, R0 = 10.
C11_Witness ==
    /\ IsHalted
    /\ image \in LoopImages
    /\ steps = 32
    /\ faddr = 12292
    /\ reg[0] = 10

ExecutedTrap(code) == Executed /\ OpOf(ir) = 15 /\ ir % 256 = code

\* The low bytes of the words Memory[a], Memory[a+1], ... before the first zero
\* word, Memory being the cells 0x0000..0xFFFF.
RECURSIVE StringAt(_)
StringAt(a) ==
    IF a > 65535 \/ Cell(mem, a) = 0 THEN <<>>
    ELSE <<Cell(mem, a) % 256>> \o StringAt(a + 1)

\* C12: TRAP PUTS with R0 = a writes, in address order, the low byte of each
\* word Memory[a], Memory[a+1], ... up to but not including the first zero
\* word; with the words 72, 105, 0 at a the output is exactly 'H', 'i'.
C12_PutsWritesUpToZero ==
    ExecutedTrap(34) =>
        /\ io.out = StringAt(reg[0])
        /\ (/\ Cell(mem, reg[0]) = 72
            /\ Cell(mem, reg[0] + 1) = 105
            /\ Cell(mem, reg[0] + 2) = 0) => io.out = <<72, 105>>

\* The same for a string that ends below 0xFFFF, the last word of memory_.
C12_PutsInsideMemory ==
    (ExecutedTrap(34) /\ ~io.oob) =>
        /\ io.out = StringAt(reg[0])
        /\ (/\ Cell(mem, reg[0]) = 72
            /\ Cell(mem, reg[0] + 1) = 105
            /\ Cell(mem, reg[0] + 2) = 0) => io.out = <<72, 105>>

\* PUTS has written "Hi".
C12_HiWritten ==
    /\ ExecutedTrap(34)
    /\ reg[0] = 12290
    /\ io.out = <<72, 105>>

\* The number of polls of the step that reported pending input.
PendingPolls == Cardinality({i \in DOMAIN io.keys : io.keys[i]})

\* The number of characters the step read in TRAP GETC or TRAP IN.
TrapChars == IF ExecutedTrap(32) \/ ExecutedTrap(35) THEN 1 ELSE 0

\* C13: a read of the status address 0xFE00 while no input is pending leaves
\* Memory[0xFE00] with bit 15 clear, returns that value (as the instruction
\* word of a fetch, or into the destination register of a load), reads no
\* character, and the engine goes on Running at the next instruction; the
\* memory read path reads a character only for a poll that reported pending
\* input.
C13_IdlePollDoesNotBlock ==
    /\ (Executed /\ io.keys = <<FALSE>>) =>
          /\ Cell(mem, 65024) < 32768
          /\ io.chars = <<>>
          /\ io.reads[1] = 65024 =>
                (ir = Cell(mem, 65024) /\ reg[kRPC] = 65025)
          /\ (OpOf(ir) \in {2, 6, 10} /\ io.reads[Len(io.reads)] = 65024) =>
                (reg[DestOf(ir)] = Cell(mem, 65024) /\ reg[kRPC] = (faddr + 1) % 65536)
          /\ pc = "loop" => running
    /\ Executed => Len(io.chars) = PendingPolls + TrapChars

\* C13 witness: LDI through a pointer to 0xFE00 with no input pending read 0,
\* and the engine is Running.
C13_Witness ==
    /\ IsRunning
    /\ Executed
    /\ OpOf(ir) = 10
    /\ io.reads = <<12288, 12289, 65024>>
    /\ io.keys = <<FALSE>>
    /\ io.chars = <<>>
    /\ reg[0] = 0

DeviceCells == {65024, 65026}
ExecutesStore == ExecutesOne /\ OpOf(ir') \in {3, 7, 11}

\* C14: ST, STI and STR whose target is 0xFE00 or 0xFE02 write the source
\* register's value into that cell and change no other cell, as a store to an
\* ordinary cell does; the write polls nothing and reads no character (the
\* polls of the step are those of its reads at 0xFE00); and a device cell
\* changes only in a step that stores to it or polls the keyboard, so the
\* stored value stays until a read at 0xFE00 overwrites it.
C14_StoresBypassDevice ==
    [][ /\ (ExecutesStore /\ io'.writes[1] \in DeviceCells) =>
              /\ Len(io'.writes) = 1
              /\ Cell(mem', io'.writes[1]) = reg[Field(ir', 9, 3)]
              /\ \A a \in (DOMAIN mem) \cup (DOMAIN mem') :
                    a # io'.writes[1] => Cell(mem', a) = Cell(mem, a)
              /\ io'.keys = <<>>
              /\ io'.chars = <<>>
              /\ IsRunning'
        /\ ExecutesStore =>
              Len(io'.keys) = Cardinality({i \in DOMAIN io'.reads : io'.reads[i] = 65024})
        /\ ExecutesOne =>
              \A a \in DeviceCells :
                  Cell(mem', a) # Cell(mem, a) =>
                      \/ OpOf(ir') \in {3, 7, 11} /\ io'.writes = <<a>>
                      \/ io'.keys = <<TRUE>>
                      \/ io'.keys = <<FALSE>> /\ a = 65024
      ]_vars

\* C14 witness: STR has stored 0xFE00 at 0xFE02 without a poll, and the word
\* the STR before it stored at 0xFE00 is still there.
C14_Witness ==
    /\ IsRunning
    /\ OpOf(ir) = 7
    /\ io.writes = <<65026>>
    /\ io.keys = <<>>
    /\ Cell(mem, 65024) = 65024
    /\ Cell(mem, 65026) = 65024

ExecutesUnknownTrap == ExecutesOne /\ OpOf(ir') = 15 /\ ir' % 256 \notin 32..37

\* C15: a TRAP whose low 8 bits are not 0x20..0x25 is ignored: no memory cell,
\* general register or flag changes, nothing is written to the output, no
\* input is polled or read, the engine stays Running and the program counter
\* is at the instruction after the TRAP.
C15_UnknownTrapIgnored ==
    [][ExecutesUnknownTrap =>
          /\ mem' = mem
          /\ \A r \in GeneralRegs : reg'[r] = reg[r]
          /\ reg'[kRCond] = reg[kRCond]
          /\ reg'[kRPC] = (reg[kRPC] + 1) % 65536
          /\ io'.out = <<>>
          /\ io'.chars = <<>>
          /\ io'.keys = <<>>
          /\ io'.writes = <<>>
          /\ IsRunning'
      ]_vars

\* C15 witness: TRAP 0xFF was executed at 0x3001 after ADD R0,R0,#-1; R0 and
\* the flags are as the ADD left them and the engine is Running at 0x3002.
C15_Witness ==
    /\ IsRunning
    /\ steps = 2
    /\ ir = 65535
    /\ reg[0] = 65535
    /\ reg[kRCond] = 4
    /\ reg[kRPC] = 12290

\* C16: after JSR or JSRR fetched at A, R7 = (A + 1) mod 65536; for JSR (bit
\* 11 set) PC = (A + 1 + sign-extended PCoffset11) mod 65536; for JSRR PC is
\* the value BaseR holds after the link was written: BaseR's old value for
\* R0..R6, and A + 1 for BaseR = R7.
C16_LinkThenTarget ==
    [][(ExecutesOne /\ OpOf(ir') = 4) =>
          LET A == reg[kRPC]
              P == (A + 1) % 65536
              base == Field(ir', 6, 3)
          IN  /\ reg'[7] = P
              /\ Field(ir', 11, 1) = 1 =>
                    reg'[kRPC] = (P + Signed(ir' % 2048, 11)) % 65536
              /\ (Field(ir', 11, 1) = 0 /\ base # 7) => reg'[kRPC] = reg[base]
              /\ (Field(ir', 11, 1) = 0 /\ base = 7) => reg'[kRPC] = P
              /\ \A r \in 0..6 : reg'[r] = reg[r]
      ]_vars

\* C16 witness: JSRR R7 fetched at 0x3000 with R7 = 0 continued at 0x3001.
C16_Witness ==
    /\ IsRunning
    /\ steps = 1
    /\ ir = 16832
    /\ faddr = 12288
    /\ reg[7] = 12289
    /\ reg[kRPC] = 12289

\* The character TRAP GETC or TRAP IN read: the last one of the step.
TrapChar == io.chars[Len(io.chars)]

InputByteRule(b) ==
    /\ reg[0] = b
    /\ reg[0] \div 256 = 0
    /\ reg[kRCond] = (IF b = 0 THEN 2 ELSE 1)

\* C17: after TRAP GETC or TRAP IN read the input byte b, 0 <= b <= 255,
\* register 0 equals b with its high byte zero and the flags are ZERO if b = 0
\* and POS otherwise; GETC writes nothing and IN writes the prompt followed by
\* the character b.
C17_InputByteZeroExtended ==
    /\ (ExecutedTrap(32) /\ TrapChar \in 0..255) =>
          (InputByteRule(TrapChar) /\ io.out = <<>>)
    /\ (ExecutedTrap(35) /\ TrapChar \in 0..255) =>
          (InputByteRule(TrapChar) /\ io.out = StrPrompt \o <<TrapChar>>)

\* The part of C17 about GETC, and the output of IN.
C17_GetcZeroExtended ==
    /\ (ExecutedTrap(32) /\ TrapChar \in 0..255) =>
          (InputByteRule(TrapChar) /\ io.out = <<>>)
    /\ (ExecutedTrap(35) /\ TrapChar \in 0..255) =>
          io.out = StrPrompt \o <<TrapChar>>

\* ceil(N / 2) for N = image_size - 2 body bytes.
ImageWords == (image.size - 2 + 1) \div 2

\* C18: for every image load accepts (size 1..65535) load reads only bytes of
\* the image buffer and writes only the cells origin .. origin + ceil(N/2) - 1,
\* N = image_size - 2; an accepted image shorter than its header, and an
\* image whose body fits the address space (origin + ceil(N/2) <= 65536),
\* cause no access outside the buffer or outside Memory.
C18_LoadStaysInside ==
    /\ image.size = 1 => pc # "crashed"
    /\ (/\ image.size \in 2..65535
        /\ ImageOrigin + ImageWords <= 65536
        /\ pc \notin {"main", "killed", "interrupted"}
        /\ ~Executed)
       => /\ pc # "crashed"
          /\ pc = "run" => ~io.oob
          /\ \A a \in DOMAIN mem : a \in ImageOrigin..(ImageOrigin + ImageWords - 1)
          /\ \A r \in GeneralRegs : reg[r] = 0

\* What C19 asks of one executed instruction.
FlagAndStoreFrame ==
    /\ ~FlagTriggering(ir') => reg'[kRCond] = reg[kRCond]
    /\ OpOf(ir') \in {3, 7, 11} =>
          /\ \A r \in GeneralRegs : reg'[r] = reg[r]
          /\ \A a \in (DOMAIN mem) \cup (DOMAIN mem') :
                Cell(mem', a) # Cell(mem, a) =>
                    \/ a = io'.writes[1]
                    \/ a \in DeviceCells /\ io'.keys # <<>>

\* C19: only ADD, AND, NOT, LD, LDI, LDR, LEA, TRAP GETC and TRAP IN change
\* the flags; BR, JMP, JSR/JSRR, ST, STI, STR and the traps OUT, PUTS, PUTSP
\* and HALT leave them unchanged; ST, STI and STR change no general register
\* and no memory cell but the store target (and the device cells written by
\* the poll of STI's pointer read).
C19_FlagsAndStoreFrame ==
    [][ExecutesOne => FlagAndStoreFrame]_vars

\* The same for instructions that stay inside the 65535 words of memory_.
C19_FrameInsideMemory ==
    [][(ExecutesOne /\ ~io'.oob) => FlagAndStoreFrame]_vars

ExecutesStringTrap == ExecutesOne /\ OpOf(ir') = 15 /\ ir' % 256 \in {34, 36}

\* C20: TRAP PUTS and TRAP PUTSP, fetched from a cell of memory_, end for every
\* R0 and every memory content: the walk reads only cells of Memory, never
\* past its end, and the engine is then Running at the instruction after the
\* TRAP with registers, flags and memory unchanged.
C20_StringWalkStaysInMemory ==
    [][(ExecutesStringTrap /\ reg[kRPC] < kMaxMemory) =>
          /\ ~io'.oob
          /\ IsRunning'
          /\ reg'[kRPC] = (reg[kRPC] + 1) % 65536
          /\ \A r \in GeneralRegs : reg'[r] = reg[r]
          /\ reg'[kRCond] = reg[kRCond]
          /\ mem' = mem
      ]_vars

\* The same for a string with a zero word below 0xFFFF.
C20_StringInsideMemory ==
    [][(ExecutesStringTrap /\ reg[kRPC] < kMaxMemory /\ ~io'.oob) =>
          /\ IsRunning'
          /\ reg'[kRPC] = (reg[kRPC] + 1) % 65536
          /\ \A r \in GeneralRegs : reg'[r] = reg[r]
          /\ reg'[kRCond] = reg[kRCond]
          /\ mem' = mem
      ]_vars

====
